---- MODULE Spec2Model ----
(***************************************************************************)
(* Recovery companion app: the record store (user_profiles,                *)
(* daily_checkins, milestones, goals) and the client components that read  *)
(* and write it: GoalsMilestones (fetchData, checkMilestones,              *)
(* toggleGoalCompletion, deleteGoal, GoalForm), DailyCheckIn               *)
(* (checkTodaysCheckIn, handleSubmit), Dashboard, ProgressCharts, the      *)
(* HomePage view routing, CopingStrategies with its BreathingTimer,        *)
(* Settings, EmergencyContacts.handleCall, and the pure functions          *)
(* calculateStreak, getGoalProgress and getDaysUntilTarget.                *)
(*                                                                         *)
(* Time is an integer clock `now` in ticks; a calendar day is TicksPerDay  *)
(* ticks.  A date string 'YYYY-MM-DD' is modelled by its day number.  The  *)
(* conversions the code uses are modelled by what they do:                 *)
(*   new Date().toISOString().split('T')[0]  -> the UTC day of an instant  *)
(*   new Date('YYYY-MM-DD')                  -> UTC midnight of that day   *)
(*   d.toDateString(), d.getDate()/setDate() -> the LOCAL day of d         *)
(* The local zone is an input `tz` (offset from UTC in ticks).             *)
(*                                                                         *)
(* An async handler is cut at its store calls: one action per store call,  *)
(* which runs the call at the store and the handler's continuation up to   *)
(* the point where the next store call is issued.  Each store call may     *)
(* fail (input ok = FALSE): the store is then unchanged and the client     *)
(* sees { data: null, error }.                                             *)
(***************************************************************************)
EXTENDS Integers, Sequences, FiniteSets, TLC

\* ------------------------------------------------------------- bounds
TicksPerDay == 4
MaxLoads == 2
MaxGoals == 1
MaxPending == 1
MaxGoalDay == 1
MaxRows == 2
MaxCheckInDay == 1
MaxDay == 3
MaxLen == 3
MaxCardDay == 15
StatsDay == 40
MaxOrphans == 2
MaxUses == 2
MaxCycles == 2
MaxSaves == 2
MaxPhone == 10

\* ------------------------------------------------------------- constants
\* null for an optional calendar day (days are >= 0)
NoDate == -1

Sessions == {1, 2}

\* MILESTONE_TYPES, the two tables checkMilestones reads
DaysCleanValues == <<1, 7, 30, 60, 90, 180, 365, 730>>
CheckInValues == <<7, 30, 50, 100>>

Range(q) == {q[i] : i \in 1..Len(q)}

Pairs ==
  {<<"days_clean", v>> : v \in Range(DaysCleanValues)}
    \cup {<<"check_ins_completed", v>> : v \in Range(CheckInValues)}

EmptyBag == [p \in Pairs |-> 0]
BagAdd(b, p) == [b EXCEPT ![p] = @ + 1]

\* ------------------------------------------------------------- time
\* new Date().toISOString().split('T')[0]
UTCDay(t) == t \div TicksPerDay
\* new Date('YYYY-MM-DD').getTime()
ParseDate(d) == d * TicksPerDay
\* d.toDateString(): the calendar day of instant t in the zone at offset z
LocalDay(t, z) == (t + z) \div TicksPerDay

\* Math.floor((today.getTime() - recoveryStart.getTime()) / (1000*60*60*24))
DaysCleanAt(t, start) == (t - ParseDate(start)) \div TicksPerDay

\* ------------------------------------------------------------- state
VARIABLES
  now,          \* the clock, in ticks
  tz,           \* the client's zone offset, in ticks
  profile,      \* user_profiles.recovery_start_date of the user, or NoDate
  checkins,     \* daily_checkins rows of the user: set of [id, date, mood_score]
  msStore,      \* milestones rows of the user: bag over (type, value)
  goalStore,    \* goals rows of the user: set of goal records
  goalNextId,   \* next goals.id the store hands out
  loads,        \* number of GoalsMilestones mounts so far
  gmPc,         \* per session: position of fetchData / checkMilestones
  gmGoals,      \* per session: useState goals
  gmMilestones, \* per session: useState milestones (a bag)
  gmClosure,    \* per session: `milestones` as captured by checkMilestones
  gmGoalsData,  \* per session: goalsData held by fetchData across its 2nd await
  gmRun,        \* per session: locals of the running checkMilestones
  gmShow,       \* per session: useState showCelebration
  gmReqs,       \* per session: goal store calls in flight
  gmHist,       \* per session: history of the loads (for the idempotence claim)
  ck,           \* per session: the DailyCheckIn component
  ckWritten,    \* what the last successful check-in submission wrote
  st,           \* calculateStreak: argument, position, result
  pr,           \* getGoalProgress: argument, position, result
  du,           \* getDaysUntilTarget: argument, position, result
  db,           \* the Dashboard component
  ch,           \* the ProgressCharts component
  hp,           \* HomePage: user, loading, currentView
  ec,           \* EmergencyContacts.handleCall: argument, position, toast
  cs,           \* CopingStrategies and the usage_count of a strategy
  bt,           \* the BreathingTimer component
  sp            \* Settings and the stored preferences of the profile

storeVars == <<profile, checkins, msStore, goalStore, goalNextId>>
gmVars == <<loads, gmPc, gmGoals, gmMilestones, gmClosure, gmGoalsData, gmRun,
            gmShow, gmReqs, gmHist>>
fnVars == <<st, pr, du>>
statVars == <<db, ch>>
appVars == <<hp, ec, cs, bt, sp>>
nonGm == <<ck, ckWritten, fnVars, statVars, appVars>>
vars == <<now, tz, storeVars, gmVars, nonGm>>

\* ------------------------------------------------------------- milestones
\* (mutation of Existing: the find compares milestone_value only)
ExistingAnyType(ms, type, v) == \E p \in Pairs : p[2] = v /\ ms[p] > 0

\* milestones.find(m => m.milestone_type === type && m.milestone_value === v)
Existing(ms, type, v) == ms[<<type, v>>] > 0

\* (mutation of NeedsInsert: the `if (!existing)` guard is missing)
NeedsInsertNoDedup(counter, ms, type, v) == counter >= v

\* the two conditions guarding an insert in checkMilestones' loops
NeedsInsert(counter, ms, type, v) == counter >= v /\ ~Existing(ms, type, v)

\* (mutation of NextIdx: the loop is left after its first insert)
NextIdxBreak(values, from, counter, ms, type) ==
  LET hits == {i \in from..Len(values) : NeedsInsert(counter, ms, type, values[i])}
  IN IF from > 1 \/ hits = {} THEN Len(values) + 1
     ELSE CHOOSE i \in hits : \A j \in hits : i <= j

\* the loop `for (const milestone of values)` from position `from`: the first
\* position whose threshold is inserted, Len(values) + 1 when the loop ends
NextIdx(values, from, counter, ms, type) ==
  LET hits == {i \in from..Len(values) : NeedsInsert(counter, ms, type, values[i])}
  IN IF hits = {} THEN Len(values) + 1
     ELSE CHOOSE i \in hits : \A j \in hits : i <= j

NoShow == [kind |-> "none", type |-> "", value |-> 0]
ShowMilestone(type, v) == [kind |-> "milestone", type |-> type, value |-> v]
ShowGoal(id) == [kind |-> "goal", type |-> "", value |-> id]

NewRun == [evalDays |-> FALSE, daysClean |-> 0, count |-> 0, idx |-> 0,
           log |-> <<>>]

\* goals ordered as fetchData orders them: incomplete first, then by id
GoalKey(g) == (IF g.is_completed THEN 1000 ELSE 0) + g.id
SortedGoals(S) ==
  CHOOSE q \in [1..Cardinality(S) -> S] :
    \A i, j \in 1..Cardinality(S) : i < j => GoalKey(q[i]) < GoalKey(q[j])

\* useEffect(() => { fetchData() }, []) of a freshly mounted GoalsMilestones
GoalsMilestones_Mount(s) ==
  /\ gmPc[s] = "unmounted"
  /\ loads < MaxLoads
  /\ loads' = loads + 1
  /\ gmPc' = [gmPc EXCEPT ![s] = "fetchGoals"]
  /\ gmGoals' = [gmGoals EXCEPT ![s] = <<>>]
  /\ gmMilestones' = [gmMilestones EXCEPT ![s] = EmptyBag]
  /\ gmClosure' = [gmClosure EXCEPT ![s] = EmptyBag]
  /\ gmRun' = [gmRun EXCEPT ![s] = NewRun]
  /\ gmShow' = [gmShow EXCEPT ![s] = NoShow]
  /\ gmHist' = [gmHist EXCEPT ![s] = IF @ = "clean" THEN "idem" ELSE "none"]
  /\ UNCHANGED <<nonGm, now, tz, storeVars, gmGoalsData, gmReqs>>

\* fetchData, first await: the goals query
fetchData_Goals(s, ok) ==
  /\ gmPc[s] = "fetchGoals"
  /\ gmGoalsData' = [gmGoalsData EXCEPT ![s] =
       [ok |-> ok, rows |-> IF ok THEN SortedGoals(goalStore) ELSE <<>>]]
  /\ gmPc' = [gmPc EXCEPT ![s] = "fetchMilestones"]
  /\ UNCHANGED <<nonGm, now, tz, storeVars, loads, gmGoals, gmMilestones, gmClosure,
                 gmRun, gmShow, gmReqs, gmHist>>

\* fetchData, second await: the milestones query, then setGoals, setMilestones,
\* setLoading(false); the effect on [loading] starts checkMilestones, which
\* captures `milestones` and issues the profile query
fetchData_Milestones(s, ok) ==
  /\ gmPc[s] = "fetchMilestones"
  /\ gmGoals' = [gmGoals EXCEPT ![s] =
       IF gmGoalsData[s].ok THEN gmGoalsData[s].rows ELSE @]
  /\ LET ms == IF ok THEN msStore ELSE gmMilestones[s]
     IN /\ gmMilestones' = [gmMilestones EXCEPT ![s] = ms]
        /\ gmClosure' = [gmClosure EXCEPT ![s] = ms]
  /\ gmRun' = [gmRun EXCEPT ![s] = NewRun]
  /\ gmPc' = [gmPc EXCEPT ![s] = "profile"]
  /\ gmGoalsData' = [gmGoalsData EXCEPT ![s] = [ok |-> FALSE, rows |-> <<>>]]
  /\ UNCHANGED <<nonGm, now, tz, storeVars, loads, gmShow, gmReqs, gmHist>>

\* (mutation of HasStart: the days_clean block is entered without a date)
HasStartAlways(start) == TRUE

\* if (profile?.recovery_start_date)
HasStart(start) == start # NoDate

\* (mutation of InsertReported: the result of the insert is not tested)
InsertReportedAlways(ok) == TRUE

\* if (data && !error) after an insert with .select().single()
InsertReported(ok) == ok

\* checkMilestones: the user_profiles query, then the days_clean loop up to
\* its first insert
checkMilestones_Profile(s, ok) ==
  /\ gmPc[s] = "profile"
  /\ LET start == IF ok THEN profile ELSE NoDate
         dc == DaysCleanAt(now, start)
         i == NextIdx(DaysCleanValues, 1, dc, gmClosure[s], "days_clean")
     IN IF HasStart(start)
        THEN /\ gmRun' = [gmRun EXCEPT ![s].evalDays = TRUE, ![s].daysClean = dc,
                                       ![s].idx = i]
             /\ gmPc' = [gmPc EXCEPT ![s] =
                  IF i <= Len(DaysCleanValues) THEN "days" ELSE "count"]
        ELSE /\ gmRun' = gmRun
             /\ gmPc' = [gmPc EXCEPT ![s] = "count"]
  /\ UNCHANGED <<nonGm, now, tz, storeVars, loads, gmGoals, gmMilestones, gmClosure,
                 gmGoalsData, gmShow, gmReqs, gmHist>>

\* History kept for the idempotence claim: gmHist[s] is "clean" when the last
\* run of s read the counters the store holds, had all its inserts accepted,
\* and the store has not changed since it ended; "idem" during a load that
\* was started in that state.
HistAfterInsert(s, ok) ==
  [x \in Sessions |->
     IF ok /\ x # s /\ gmHist[x] = "clean" THEN "none" ELSE gmHist[x]]

\* checkMilestones: one insert of the days_clean loop, its continuation
\* (setMilestones, setShowCelebration) and the loop up to the next insert
checkMilestones_InsertDaysClean(s, ok) ==
  /\ gmPc[s] = "days"
  /\ LET v == DaysCleanValues[gmRun[s].idx]
         p == <<"days_clean", v>>
         i == NextIdx(DaysCleanValues, gmRun[s].idx + 1, gmRun[s].daysClean,
                      gmClosure[s], "days_clean")
     IN /\ msStore' = IF ok THEN BagAdd(msStore, p) ELSE msStore
        /\ gmMilestones' = [gmMilestones EXCEPT ![s] =
             IF InsertReported(ok) THEN BagAdd(@, p) ELSE @]
        /\ gmShow' = [gmShow EXCEPT ![s] =
             IF InsertReported(ok) THEN ShowMilestone("days_clean", v) ELSE @]
        /\ gmRun' = [gmRun EXCEPT ![s].idx = i,
                       ![s].log = Append(@, [type |-> "days_clean", value |-> v, ok |-> ok])]
        /\ gmPc' = [gmPc EXCEPT ![s] =
             IF i <= Len(DaysCleanValues) THEN "days" ELSE "count"]
  /\ gmHist' = HistAfterInsert(s, ok)
  /\ UNCHANGED <<nonGm, now, tz, profile, checkins, goalStore, goalNextId, loads, gmGoals,
                 gmClosure, gmGoalsData, gmReqs>>

\* the end of a run of checkMilestones, whose locals are then `run`
HistAfterRun(h, s, run) ==
  [h EXCEPT ![s] =
     IF /\ \A i \in 1..Len(run.log) : run.log[i].ok
        /\ run.evalDays = (profile # NoDate)
        /\ run.count = Cardinality(checkins)
     THEN "clean" ELSE "none"]

\* checkMilestones: the daily_checkins count query, then the
\* check_ins_completed loop up to its first insert
checkMilestones_Count(s, ok) ==
  /\ gmPc[s] = "count"
  /\ LET n == IF ok THEN Cardinality(checkins) ELSE 0
         i == NextIdx(CheckInValues, 1, n, gmClosure[s], "check_ins_completed")
         fin == i > Len(CheckInValues)
     IN /\ gmRun' = [gmRun EXCEPT ![s].count = n, ![s].idx = i]
        /\ gmPc' = [gmPc EXCEPT ![s] = IF fin THEN "done" ELSE "checkins"]
        /\ gmHist' = IF fin THEN HistAfterRun(gmHist, s, gmRun'[s]) ELSE gmHist
  /\ UNCHANGED <<nonGm, now, tz, storeVars, loads, gmGoals, gmMilestones, gmClosure,
                 gmGoalsData, gmShow, gmReqs>>

\* checkMilestones: one insert of the check_ins_completed loop, its
\* continuation (setMilestones) and the loop up to the next insert
checkMilestones_InsertCheckIns(s, ok) ==
  /\ gmPc[s] = "checkins"
  /\ LET v == CheckInValues[gmRun[s].idx]
         p == <<"check_ins_completed", v>>
         i == NextIdx(CheckInValues, gmRun[s].idx + 1, gmRun[s].count,
                      gmClosure[s], "check_ins_completed")
         fin == i > Len(CheckInValues)
         h == HistAfterInsert(s, ok)
     IN /\ msStore' = IF ok THEN BagAdd(msStore, p) ELSE msStore
        /\ gmMilestones' = [gmMilestones EXCEPT ![s] =
             IF InsertReported(ok) THEN BagAdd(@, p) ELSE @]
        /\ gmRun' = [gmRun EXCEPT ![s].idx = i,
                       ![s].log = Append(@, [type |-> "check_ins_completed",
                                             value |-> v, ok |-> ok])]
        /\ gmPc' = [gmPc EXCEPT ![s] = IF fin THEN "done" ELSE "checkins"]
        /\ gmHist' = IF fin THEN HistAfterRun(h, s, gmRun'[s]) ELSE h
  /\ UNCHANGED <<nonGm, now, tz, profile, checkins, goalStore, goalNextId, loads, gmGoals,
                 gmClosure, gmGoalsData, gmShow, gmReqs>>

\* onBack: HomePage unmounts the component (taken once checkMilestones has
\* ended and no goal call is in flight)
GoalsMilestones_onBack(s) ==
  /\ gmPc[s] = "done"
  /\ gmReqs[s] = {}
  /\ gmPc' = [gmPc EXCEPT ![s] = "unmounted"]
  /\ UNCHANGED <<nonGm, now, tz, storeVars, loads, gmGoals, gmMilestones, gmClosure,
                 gmGoalsData, gmRun, gmShow, gmReqs, gmHist>>

\* ------------------------------------------------------------- specification
\* what the user's store holds when the app is opened
CheckInRows(n) == {[id |-> i, date |-> i, mood_score |-> 5] : i \in 1..n}
StartDates == {NoDate, 5, 39}
CheckInCounts == {0, 8}
MsNow == 40 * TicksPerDay + 1
InitialMilestones ==
  {EmptyBag, BagAdd(EmptyBag, <<"days_clean", 7>>)}

GmIdle ==
  /\ loads = 0
  /\ gmPc = [s \in Sessions |-> "unmounted"]
  /\ gmGoals = [s \in Sessions |-> <<>>]
  /\ gmMilestones = [s \in Sessions |-> EmptyBag]
  /\ gmClosure = [s \in Sessions |-> EmptyBag]
  /\ gmGoalsData = [s \in Sessions |-> [ok |-> FALSE, rows |-> <<>>]]
  /\ gmRun = [s \in Sessions |-> NewRun]
  /\ gmShow = [s \in Sessions |-> NoShow]
  /\ gmReqs = [s \in Sessions |-> {}]
  /\ gmHist = [s \in Sessions |-> "none"]

CkUnmounted ==
  [mounted |-> FALSE, looking |-> FALSE, lookupDay |-> 0,
   hasCheckedInToday |-> FALSE, todaysId |-> 0,
   isSubmitting |-> FALSE, req |-> [kind |-> "none", id |-> 0, date |-> 0, mood |-> 0]]
NotWritten == [done |-> FALSE, today |-> 0, date |-> 0]

CkIdle ==
  /\ ck = [s \in Sessions |-> CkUnmounted]
  /\ ckWritten = NotWritten

JsNum(kind, n, d) == [kind |-> kind, n |-> n, d |-> d]
NoGoal == [is_completed |-> FALSE, target_date |-> NoDate, created_at |-> 0]

\* getDaysUntilTarget's result `${n} ${label}`
DaysText(n, label) == [n |-> n, label |-> label]
DuIdle == [target |-> 0, pc |-> "idle", result |-> DaysText(0, "")]

FnIdle ==
  /\ st = [list |-> <<>>, pc |-> "idle", result |-> 0]
  /\ pr = [goal |-> NoGoal, pc |-> "idle", result |-> JsNum("fin", 0, 1)]
  /\ du = DuIdle

\* Dashboard: useState checkIns, stats; the two fetches started by the mount
\* effect; `closure` is the checkIns value fetchStats was created with
NoStats == [totalCheckIns |-> 0, avgMood |-> JsNum("fin", 0, 1), streak |-> 0]
NoData == [null |-> TRUE, rows |-> <<>>]
DbUnmounted ==
  [mounted |-> FALSE, checkIns |-> <<>>, closure |-> <<>>, stats |-> NoStats,
   list |-> "idle", pc |-> "idle", count |-> 0, moodData |-> NoData,
   avgMood |-> JsNum("fin", 0, 1)]

\* ProgressCharts: useState checkIns, timeRange, loading, triggerStats, and
\* the first day of the query fetchData has in flight
ChUnmounted ==
  [mounted |-> FALSE, checkIns |-> <<>>, timeRange |-> 30, loading |-> TRUE,
   triggerStats |-> {}, fetching |-> FALSE, since |-> 0]

StatIdle ==
  /\ db = DbUnmounted
  /\ ch = ChUnmounted

\* HomePage's useState values; the getUser() promise of the mount effect and a
\* check-in submission started in the checkin view may be in flight
NoUser == 0
HpInitial ==
  [user |-> NoUser, loading |-> TRUE, currentView |-> "dashboard",
   getUser |-> TRUE, isSubmitting |-> FALSE, orphans |-> 0]
\* handleCall has not run
EcIdle == [phone |-> <<>>, pc |-> "idle", toast |-> "none"]
\* CopingStrategies before mount, for one Breathing strategy of the user:
\* usage_count is the local value, stored the value of the store row, reqs
\* the usage_count values of the updates in flight; initial and succeeded
\* record the count fetched and the successful calls since
CsUnmounted ==
  [mounted |-> FALSE, loading |-> TRUE, listed |-> FALSE, usage_count |-> 0,
   stored |-> 0, reqs |-> <<>>, timer |-> FALSE, initial |-> 0,
   succeeded |-> 0]
BtInitial == [phase |-> "inhale", count |-> 4, isActive |-> FALSE, cycles |-> 0]
\* two of the notification_preferences keys, as createProfile writes them
DefaultPrefs == [k \in {"daily_reminder", "milestone_alerts"} |-> TRUE]
\* Settings before mount: profile is the local notification_preferences,
\* stored the one of the store row, reqs the updates in flight; expected
\* records the fetched preferences with every successful change applied
SpUnmounted ==
  [mounted |-> FALSE, loading |-> TRUE, hasProfile |-> FALSE,
   profile |-> DefaultPrefs, stored |-> DefaultPrefs, reqs |-> <<>>,
   saving |-> FALSE, expected |-> DefaultPrefs]

AppIdle ==
  /\ hp = HpInitial
  /\ ec = EcIdle
  /\ cs = CsUnmounted
  /\ bt = BtInitial
  /\ sp = SpUnmounted

InitMilestones ==
  /\ now = MsNow
  /\ tz = 0
  /\ profile \in StartDates
  /\ \E n \in CheckInCounts : checkins = CheckInRows(n)
  /\ msStore \in InitialMilestones
  /\ goalStore = {}
  /\ goalNextId = 1
  /\ GmIdle /\ CkIdle /\ FnIdle /\ StatIdle /\ AppIdle

NextMilestones ==
  \E s \in Sessions :
    \/ GoalsMilestones_Mount(s)
    \/ GoalsMilestones_onBack(s)
    \/ \E ok \in BOOLEAN :
         \/ fetchData_Goals(s, ok)
         \/ fetchData_Milestones(s, ok)
         \/ checkMilestones_Profile(s, ok)
         \/ checkMilestones_InsertDaysClean(s, ok)
         \/ checkMilestones_Count(s, ok)
         \/ checkMilestones_InsertCheckIns(s, ok)

SpecMilestones == InitMilestones /\ [][NextMilestones]_vars

\* ------------------------------------------------------------- claims C1..C4
\* the counter a run of checkMilestones compares the thresholds of `type` with
Counter(s, type) ==
  IF type = "days_clean"
  THEN (IF gmRun[s].evalDays THEN gmRun[s].daysClean ELSE 0)
  ELSE gmRun[s].count

LogPairs(q) == {<<q[i].type, q[i].value>> : i \in 1..Len(q)}
\* the pairs the current run of s has issued an insert for / has inserted
Attempted(s) == LogPairs(gmRun[s].log)
Inserted(s) == LogPairs(SelectSeq(gmRun[s].log, LAMBDA e : e.ok))
\* the pairs whose threshold the run's counter has reached and that the
\* milestones list read by the run does not hold
Qualifying(s) == {p \in Pairs : Counter(s, p[1]) >= p[2] /\ gmClosure[s][p] = 0}

DaysPairs(S) == {p[2] : p \in {x \in S : x[1] = "days_clean"}}

\* C1 (as stated): when a run of checkMilestones has ended, every threshold of
\* the two tables that the counter has reached and that has no existing
\* milestone has been inserted in that run, and nothing else has.
C1_AllQualifyingInserted ==
  \A s \in Sessions : gmPc[s] = "done" => Inserted(s) = Qualifying(s)

\* C1 (amended): a run issues an insert for exactly the thresholds the counter
\* it read has reached and the milestones list it read does not hold; no
\* insert is ever issued for a value outside the table or above the counter;
\* every insert the store accepted is in the store and in the local list.
C1_AllQualifyingAttempted ==
  \A s \in Sessions :
    /\ gmPc[s] = "done" => Attempted(s) = Qualifying(s)
    /\ \A p \in Attempted(s) : p \in Pairs /\ Counter(s, p[1]) >= p[2]
    /\ \A p \in Inserted(s) : msStore[p] >= 1 /\ gmMilestones[s][p] >= 1

\* days_clean = 35, no existing milestone, all inserts accepted: {1, 7, 30}
C1_Witness ==
  \E s \in Sessions :
    /\ gmPc[s] = "done"
    /\ gmRun[s].evalDays /\ gmRun[s].daysClean = 35
    /\ gmClosure[s] = EmptyBag
    /\ DaysPairs(Inserted(s)) = {1, 7, 30}

C3_SecondRunInsertsNothing ==
  \A s \in Sessions : gmHist[s] = "idem" => Inserted(s) = {}

\* C4: the store holds at most one milestone per (user, type, value).
C4_UniqueMilestones ==
  \A p \in Pairs : msStore[p] <= 1

\* ------------------------------------------------------------- goals
\* a goals row: formData is abstracted to its title
Goal(id, title, done, date) ==
  [id |-> id, title |-> title, is_completed |-> done, completed_date |-> date]

Titles == {"a", "b"}

\* the view is rendered (loading is false), so its buttons can be pressed
Loaded(s) == gmPc[s] \notin {"unmounted", "fetchGoals", "fetchMilestones"}

Req(op, id, title, done, date) ==
  [op |-> op, id |-> id, title |-> title, is_completed |-> done,
   completed_date |-> date]

\* (mutation of CompletedDate: un-completing keeps a date)
CompletedDateNeverCleared(isCompleting, t) == UTCDay(t)

\* toggleGoalCompletion: completedDate
CompletedDate(isCompleting, t) == IF isCompleting THEN UTCDay(t) ELSE NoDate

\* (mutation of MapGoal: the map does not test the id)
MapGoalAll(q, id, done, date) ==
  [i \in 1..Len(q) |-> [q[i] EXCEPT !.is_completed = done, !.completed_date = date]]

\* prev.map(g => g.id === id ? f(g) : g), prev.filter(g => g.id !== id)
MapGoal(q, id, done, date) ==
  [i \in 1..Len(q) |->
     IF q[i].id = id THEN [q[i] EXCEPT !.is_completed = done, !.completed_date = date]
     ELSE q[i]]
ReplaceGoal(q, g) == [i \in 1..Len(q) |-> IF q[i].id = g.id THEN g ELSE q[i]]
RemoveGoal(q, id) == SelectSeq(q, LAMBDA g : g.id # id)

\* toggleGoalCompletion(goal) up to its store call: the update is issued with
\* the values computed from the rendered goal
toggleGoalCompletion_Call(s, i) ==
  /\ Loaded(s)
  /\ i \in 1..Len(gmGoals[s])
  /\ Cardinality(gmReqs[s]) < MaxPending
  /\ LET goal == gmGoals[s][i]
         isCompleting == ~goal.is_completed
     IN gmReqs' = [gmReqs EXCEPT ![s] = @ \cup
          {Req("toggle", goal.id, goal.title, isCompleting,
               CompletedDate(isCompleting, now))}]
  /\ UNCHANGED <<nonGm, now, tz, storeVars, loads, gmPc, gmGoals, gmMilestones, gmClosure,
                 gmGoalsData, gmRun, gmShow, gmHist>>

\* toggleGoalCompletion: the update at the store and the continuation
toggleGoalCompletion_Store(s, r, ok) ==
  /\ r \in gmReqs[s] /\ r.op = "toggle"
  /\ gmReqs' = [gmReqs EXCEPT ![s] = @ \ {r}]
  /\ goalStore' =
       IF ok
       THEN {IF g.id = r.id
             THEN [g EXCEPT !.is_completed = r.is_completed,
                            !.completed_date = r.completed_date]
             ELSE g : g \in goalStore}
       ELSE goalStore
  /\ gmGoals' = [gmGoals EXCEPT ![s] =
       IF ok THEN MapGoal(@, r.id, r.is_completed, r.completed_date) ELSE @]
  /\ gmShow' = [gmShow EXCEPT ![s] = IF ok /\ r.is_completed THEN ShowGoal(r.id) ELSE @]
  /\ UNCHANGED <<nonGm, now, tz, profile, checkins, msStore, goalNextId, loads, gmPc,
                 gmMilestones, gmClosure, gmGoalsData, gmRun, gmHist>>

\* deleteGoal(goalId) up to its store call; `confirmed` is the answer to
\* confirm(...): when it is declined the handler returns at once
deleteGoal_Call(s, i, confirmed) ==
  /\ Loaded(s)
  /\ i \in 1..Len(gmGoals[s])
  /\ Cardinality(gmReqs[s]) < MaxPending
  /\ gmReqs' = [gmReqs EXCEPT ![s] =
       IF confirmed
       THEN @ \cup {Req("delete", gmGoals[s][i].id, "", FALSE, NoDate)}
       ELSE @]
  /\ UNCHANGED <<nonGm, now, tz, storeVars, loads, gmPc, gmGoals, gmMilestones, gmClosure,
                 gmGoalsData, gmRun, gmShow, gmHist>>

\* deleteGoal: the delete at the store and the continuation
deleteGoal_Store(s, r, ok) ==
  /\ r \in gmReqs[s] /\ r.op = "delete"
  /\ gmReqs' = [gmReqs EXCEPT ![s] = @ \ {r}]
  /\ goalStore' = IF ok THEN {g \in goalStore : g.id # r.id} ELSE goalStore
  /\ gmGoals' = [gmGoals EXCEPT ![s] = IF ok THEN RemoveGoal(@, r.id) ELSE @]
  /\ UNCHANGED <<nonGm, now, tz, profile, checkins, msStore, goalNextId, loads, gmPc,
                 gmMilestones, gmClosure, gmGoalsData, gmRun, gmShow, gmHist>>

\* GoalForm.handleSubmit up to its store call; i = 0 is the Add Goal form,
\* i > 0 the Edit form of the i-th rendered goal; isSubmitting disables the
\* button while a form call is in flight
GoalForm_handleSubmit_Call(s, i, title) ==
  /\ Loaded(s)
  /\ i \in 0..Len(gmGoals[s])
  /\ Cardinality(gmReqs[s]) < MaxPending
  /\ \A r \in gmReqs[s] : r.op \notin {"insert", "update"}
  /\ gmReqs' = [gmReqs EXCEPT ![s] = @ \cup
       {IF i = 0 THEN Req("insert", 0, title, FALSE, NoDate)
        ELSE Req("update", gmGoals[s][i].id, title, FALSE, NoDate)}]
  /\ UNCHANGED <<nonGm, now, tz, storeVars, loads, gmPc, gmGoals, gmMilestones, gmClosure,
                 gmGoalsData, gmRun, gmShow, gmHist>>

\* GoalForm.handleSubmit: the insert or update at the store, .select().single()
\* and onSave; an update that matches no row fails in single()
GoalForm_handleSubmit_Store(s, r, ok) ==
  /\ r \in gmReqs[s] /\ r.op \in {"insert", "update"}
  /\ r.op = "insert" /\ ok => goalNextId <= MaxGoals
  /\ gmReqs' = [gmReqs EXCEPT ![s] = @ \ {r}]
  /\ IF r.op = "insert"
     THEN LET data == Goal(goalNextId, r.title, FALSE, NoDate)
          IN /\ goalStore' = IF ok THEN goalStore \cup {data} ELSE goalStore
             /\ goalNextId' = IF ok THEN goalNextId + 1 ELSE goalNextId
             /\ gmGoals' = [gmGoals EXCEPT ![s] = IF ok THEN Append(@, data) ELSE @]
     ELSE LET hit == {g \in goalStore : g.id = r.id}
              done == ok /\ hit # {}
              data == [(CHOOSE g \in hit : TRUE) EXCEPT !.title = r.title]
          IN /\ goalStore' = IF done THEN (goalStore \ hit) \cup {data} ELSE goalStore
             /\ goalNextId' = goalNextId
             /\ gmGoals' = [gmGoals EXCEPT ![s] = IF done THEN ReplaceGoal(@, data) ELSE @]
  /\ UNCHANGED <<nonGm, now, tz, profile, checkins, msStore, loads, gmPc, gmMilestones,
                 gmClosure, gmGoalsData, gmRun, gmShow, gmHist>>

\* a day passes
DayPasses ==
  /\ UTCDay(now) < MaxGoalDay
  /\ now' = now + TicksPerDay
  /\ UNCHANGED <<nonGm, tz, storeVars, gmVars>>

\* goals the user's store holds when the app is opened
InitialGoals ==
  {{}, {Goal(1, "a", FALSE, NoDate)}, {Goal(1, "a", TRUE, 0)}}

InitGoals ==
  /\ now = 1
  /\ tz = 0
  /\ profile = NoDate
  /\ checkins = {}
  /\ msStore = EmptyBag
  /\ goalStore \in InitialGoals
  /\ goalNextId = Cardinality(goalStore) + 1
  /\ GmIdle /\ CkIdle /\ FnIdle /\ StatIdle /\ AppIdle

\* one session works on the goals; the user has no recovery_start_date and
\* no check-ins here, so the two loops of checkMilestones insert nothing
GoalSessions == {1}

NextGoals ==
  \/ DayPasses
  \/ \E s \in GoalSessions :
       \/ GoalsMilestones_Mount(s)
       \/ GoalsMilestones_onBack(s)
       \/ \E ok \in BOOLEAN :
            \/ fetchData_Goals(s, ok)
            \/ fetchData_Milestones(s, ok)
            \/ checkMilestones_Profile(s, ok)
            \/ checkMilestones_Count(s, ok)
            \/ \E r \in gmReqs[s] : toggleGoalCompletion_Store(s, r, ok)
            \/ \E r \in gmReqs[s] : deleteGoal_Store(s, r, ok)
            \/ \E r \in gmReqs[s] : GoalForm_handleSubmit_Store(s, r, ok)
       \/ \E i \in 0..MaxGoals :
            \/ toggleGoalCompletion_Call(s, i)
            \/ deleteGoal_Call(s, i, TRUE)
            \/ \E title \in Titles : GoalForm_handleSubmit_Call(s, i, title)

SpecGoals == InitGoals /\ [][NextGoals]_vars

\* ------------------------------------------------------------- claim C8
GoalDateIffCompleted(g) == (g.completed_date # NoDate) <=> g.is_completed

\* C8: in the store and in every local goals list, completed_date is set
\* exactly when is_completed is true; a toggle is issued with completed_date
\* the current day when completing and null when un-completing, and a
\* successful toggle leaves exactly these values in the store row.
C8_CompletedDateIffCompleted ==
  /\ [](/\ \A g \in goalStore : GoalDateIffCompleted(g)
        /\ \A s \in Sessions : \A i \in 1..Len(gmGoals[s]) :
             GoalDateIffCompleted(gmGoals[s][i]))
  /\ [][\A s \in Sessions :
          /\ \A r \in gmReqs'[s] \ gmReqs[s] :
               r.op = "toggle" =>
                 r.completed_date = (IF r.is_completed THEN UTCDay(now) ELSE NoDate)
          /\ \A r \in gmReqs[s] \ gmReqs'[s] :
               (r.op = "toggle" /\ goalStore' # goalStore) =>
                 \E g \in goalStore' :
                   /\ g.id = r.id
                   /\ g.is_completed = r.is_completed
                   /\ g.completed_date = r.completed_date]_vars

\* a goal completed on a later day than the one the app was opened on, then
\* shown in the celebration modal
C8_Witness ==
  \E s \in Sessions : \E i \in 1..Len(gmGoals[s]) :
    /\ gmShow[s] = ShowGoal(gmGoals[s][i].id)
    /\ gmGoals[s][i].is_completed
    /\ gmGoals[s][i].completed_date = UTCDay(now)
    /\ UTCDay(now) > 0
    /\ gmGoals[s][i] \in goalStore

\* ------------------------------------------------------------- DailyCheckIn
CkReq(kind, id, date, mood) == [kind |-> kind, id |-> id, date |-> date, mood |-> mood]
Moods == {5, 8}

\* useEffect(() => { checkTodaysCheckIn() }, [user]) of a freshly mounted
\* DailyCheckIn: `today` is computed and the lookup is issued
DailyCheckIn_Mount(s) ==
  /\ ~ck[s].mounted /\ ~ck[s].isSubmitting
  /\ ck' = [ck EXCEPT ![s] =
       [CkUnmounted EXCEPT !.mounted = TRUE, !.looking = TRUE,
                           !.lookupDay = UTCDay(now)]]
  /\ UNCHANGED <<now, tz, storeVars, gmVars, ckWritten, fnVars, statVars, appVars>>

\* checkTodaysCheckIn: the query .eq('date', today).single() at the store and
\* the continuation; single() gives data only when exactly one row matches
checkTodaysCheckIn(s, ok) ==
  /\ ck[s].mounted /\ ck[s].looking
  /\ LET rows == {r \in checkins : r.date = ck[s].lookupDay}
         found == ok /\ Cardinality(rows) = 1
     IN ck' = [ck EXCEPT ![s].looking = FALSE,
                         ![s].hasCheckedInToday = IF found THEN TRUE ELSE @,
                         ![s].todaysId = IF found THEN (CHOOSE r \in rows : TRUE).id ELSE @]
  /\ UNCHANGED <<now, tz, storeVars, gmVars, ckWritten, fnVars, statVars, appVars>>

\* handleSubmit up to its store call, with the form holding mood_score v:
\* update of todaysCheckIn.id when hasCheckedInToday, else insert dated today
handleSubmit_Call(s, v) ==
  /\ ck[s].mounted /\ ~ck[s].isSubmitting
  /\ LET today == UTCDay(now)
     IN ck' = [ck EXCEPT ![s].isSubmitting = TRUE,
                         ![s].req = IF ck[s].hasCheckedInToday
                                    THEN CkReq("update", ck[s].todaysId, today, v)
                                    ELSE CkReq("insert", 0, today, v)]
  /\ UNCHANGED <<now, tz, storeVars, gmVars, ckWritten, fnVars, statVars, appVars>>

\* (mutation of handleSubmit_Store: the state setters and onComplete follow
\* the try block instead of ending it, so they also run after a failure)
handleSubmit_StoreNoThrow(s, ok) ==
  /\ ck[s].isSubmitting
  /\ LET r == ck[s].req
         hit == {c \in checkins : c.id = r.id}
         done == IF r.kind = "insert" THEN ok ELSE ok /\ hit # {}
         data == IF r.kind = "insert"
                 THEN [id |-> Cardinality(checkins) + 1, date |-> r.date,
                       mood_score |-> r.mood]
                 ELSE [(CHOOSE c \in hit : TRUE) EXCEPT !.mood_score = r.mood]
     IN /\ (r.kind = "insert" /\ ok) => Cardinality(checkins) < MaxRows
        /\ checkins' = IF done THEN (checkins \ hit) \cup {data} ELSE checkins
        /\ ck' = [ck EXCEPT ![s] =
             [CkUnmounted EXCEPT !.hasCheckedInToday = TRUE,
                                 !.todaysId = IF done THEN data.id ELSE r.id]]
        /\ ckWritten' =
             IF done THEN [done |-> TRUE, today |-> r.date, date |-> data.date]
             ELSE ckWritten
  /\ UNCHANGED <<now, tz, profile, msStore, goalStore, goalNextId, gmVars, fnVars,
                 statVars, appVars>>

\* handleSubmit: the insert or update at the store and the continuation; on
\* success hasCheckedInToday and todaysCheckIn are set and onComplete()
\* returns HomePage to the dashboard, which unmounts the component; finally
\* isSubmitting is false
handleSubmit_Store(s, ok) ==
  /\ ck[s].isSubmitting
  /\ LET r == ck[s].req
         hit == {c \in checkins : c.id = r.id}
         done == IF r.kind = "insert" THEN ok ELSE ok /\ hit # {}
         data == IF r.kind = "insert"
                 THEN [id |-> Cardinality(checkins) + 1, date |-> r.date,
                       mood_score |-> r.mood]
                 ELSE [(CHOOSE c \in hit : TRUE) EXCEPT !.mood_score = r.mood]
     IN /\ (r.kind = "insert" /\ ok) => Cardinality(checkins) < MaxRows
        /\ checkins' = IF done THEN (checkins \ hit) \cup {data} ELSE checkins
        /\ ck' = [ck EXCEPT ![s] =
             IF done
             THEN [CkUnmounted EXCEPT !.hasCheckedInToday = TRUE,
                                      !.todaysId = data.id]
             ELSE [@ EXCEPT !.isSubmitting = FALSE, !.req = CkUnmounted.req]]
        /\ ckWritten' =
             IF done THEN [done |-> TRUE, today |-> r.date, date |-> data.date]
             ELSE ckWritten
  /\ UNCHANGED <<now, tz, profile, msStore, goalStore, goalNextId, gmVars, fnVars,
                 statVars, appVars>>

\* "Back to Dashboard": HomePage unmounts the component; the answer of a
\* lookup still in flight is dropped
DailyCheckIn_Back(s) ==
  /\ ck[s].mounted /\ ~ck[s].isSubmitting
  /\ ck' = [ck EXCEPT ![s] = CkUnmounted]
  /\ UNCHANGED <<now, tz, storeVars, gmVars, ckWritten, fnVars, statVars, appVars>>

\* midnight (UTC) passes
CkDayPasses ==
  /\ UTCDay(now) < MaxCheckInDay
  /\ now' = now + TicksPerDay
  /\ UNCHANGED <<tz, storeVars, gmVars, nonGm>>

InitCheckIn ==
  /\ now = 1
  /\ tz = 0
  /\ profile = NoDate
  /\ checkins \in {{}, {[id |-> 1, date |-> 0, mood_score |-> 5]}}
  /\ msStore = EmptyBag
  /\ goalStore = {}
  /\ goalNextId = 1
  /\ GmIdle /\ CkIdle /\ FnIdle /\ StatIdle /\ AppIdle

NextCheckIn ==
  \/ CkDayPasses
  \/ \E s \in Sessions :
       \/ DailyCheckIn_Mount(s)
       \/ DailyCheckIn_Back(s)
       \/ \E ok \in BOOLEAN : checkTodaysCheckIn(s, ok)
       \/ \E ok \in BOOLEAN : handleSubmit_Store(s, ok)
       \/ \E v \in Moods : handleSubmit_Call(s, v)

SpecCheckIn == InitCheckIn /\ [][NextCheckIn]_vars

\* One session checks in, and the store answers every call: the awaited
\* promise of handleSubmit settles
NextSubmit ==
  \/ CkDayPasses
  \/ DailyCheckIn_Mount(1)
  \/ DailyCheckIn_Back(1)
  \/ \E ok \in BOOLEAN : checkTodaysCheckIn(1, ok)
  \/ \E ok \in BOOLEAN : handleSubmit_Store(1, ok)
  \/ \E v \in Moods : handleSubmit_Call(1, v)

SpecSubmit ==
  /\ InitCheckIn
  /\ [][NextSubmit]_vars
  /\ WF_vars(\E ok \in BOOLEAN : handleSubmit_Store(1, ok))

\* C6: the store holds at most one daily_checkins row per calendar day.
C6_OneCheckInPerDay ==
  \A a, b \in checkins : a.date = b.date => a.id = b.id

\* C7: every successful submission wrote the row dated the day on which it
\* was submitted.
C7_SubmissionWritesToday ==
  ckWritten.done => ckWritten.date = ckWritten.today

\* ------------------------------------------------------------- calculateStreak
\* calculateStreak(checkInData) at instant t in the zone at offset z, from
\* position i of the list: record i (0-based i - 1) is compared, as local
\* calendar days, with today moved back i - 1 days
RECURSIVE StreakFrom(_, _, _, _)
StreakFrom(q, i, t, z) ==
  IF i > Len(q) THEN 0
  ELSE IF LocalDay(ParseDate(q[i]), z) = LocalDay(t, z) - (i - 1)
       THEN 1 + StreakFrom(q, i + 1, t, z)
       ELSE 0

\* (mutation of calculateStreak: a streak that reaches the end of the list is
\* taken to go on for one more day)
calculateStreakOpenEnded(q, t, z) ==
  IF Len(q) = 0 THEN 0
  ELSE StreakFrom(q, 1, t, z) + (IF StreakFrom(q, 1, t, z) = Len(q) THEN 1 ELSE 0)

calculateStreak(q, t, z) == IF Len(q) = 0 THEN 0 ELSE StreakFrom(q, 1, t, z)

\* lists of check-in days, most recent first, one entry per day
Descending(q) == \A i \in 1..(Len(q) - 1) : q[i] > q[i + 1]
DateLists ==
  {q \in UNION {[1..n -> 0..MaxDay] : n \in 0..MaxLen} : Descending(q)}
ZoneOffsets == {-1, 0, 1}

StreakCompute ==
  /\ st.pc = "start"
  /\ st' = [st EXCEPT !.pc = "done", !.result = calculateStreak(st.list, now, tz)]
  /\ UNCHANGED <<now, tz, storeVars, gmVars, ck, ckWritten, pr, du, statVars, appVars>>

InitStreak ==
  /\ now \in (MaxDay * TicksPerDay)..(MaxDay * TicksPerDay + TicksPerDay - 1)
  /\ tz \in ZoneOffsets
  /\ profile = NoDate
  /\ checkins = {}
  /\ msStore = EmptyBag
  /\ goalStore = {}
  /\ goalNextId = 1
  /\ GmIdle /\ CkIdle /\ StatIdle /\ AppIdle /\ du = DuIdle
  /\ \E q \in DateLists : st = [list |-> q, pc |-> "start", result |-> 0]
  /\ pr = [goal |-> NoGoal, pc |-> "idle", result |-> JsNum("fin", 0, 1)]

NextStreak == StreakCompute

SpecStreak == InitStreak /\ [][NextStreak]_vars

\* the length of the longest prefix of q whose i-th day is `today` minus i
RECURSIVE PrefixFrom(_, _, _)
PrefixFrom(q, i, today) ==
  IF i > Len(q) \/ q[i] # today - (i - 1) THEN 0
  ELSE 1 + PrefixFrom(q, i + 1, today)

\* C5: calculateStreak returns the length of the unbroken prefix counted back
\* from today (today taken as the UTC day the check-ins are dated in, or as
\* the local day).
C5_StreakIsUnbrokenPrefix ==
  st.pc = "done" =>
    \/ st.result = PrefixFrom(st.list, 1, UTCDay(now))
    \/ st.result = PrefixFrom(st.list, 1, LocalDay(now, tz))

\* ------------------------------------------------------------- getGoalProgress
\* a JS number: finite n/d (d > 0), Infinity, -Infinity or NaN
JsDiv(a, b) ==
  IF b = 0 THEN (IF a > 0 THEN JsNum("inf", 0, 1)
                 ELSE IF a < 0 THEN JsNum("-inf", 0, 1)
                 ELSE JsNum("nan", 0, 1))
  ELSE IF b < 0 THEN JsNum("fin", -a, -b) ELSE JsNum("fin", a, b)
JsTimes100(x) == IF x.kind = "fin" THEN JsNum("fin", 100 * x.n, x.d) ELSE x
\* Math.max(0, x)
JsMax0(x) ==
  IF x.kind = "nan" \/ x.kind = "inf" THEN x
  ELSE IF x.kind = "-inf" \/ x.n < 0 THEN JsNum("fin", 0, 1)
  ELSE x
\* (mutation of JsMin100: the upper clamp is missing)
JsMin100None(x) == x

\* Math.min(100, x)
JsMin100(x) ==
  IF x.kind = "nan" \/ x.kind = "-inf" THEN x
  ELSE IF x.kind = "inf" \/ x.n > 100 * x.d THEN JsNum("fin", 100, 1)
  ELSE x

\* getGoalProgress(goal) at instant t; created_at is an instant, target_date a day
getGoalProgress(goal, t) ==
  IF goal.is_completed THEN JsNum("fin", 100, 1)
  ELSE IF goal.target_date = NoDate THEN JsNum("fin", 0, 1)
  ELSE LET totalDays == ParseDate(goal.target_date) - goal.created_at
           elapsedDays == t - goal.created_at
       IN JsMin100(JsMax0(JsTimes100(JsDiv(elapsedDays, totalDays))))

ProgressCompute ==
  /\ pr.pc = "start"
  /\ pr' = [pr EXCEPT !.pc = "done", !.result = getGoalProgress(pr.goal, now)]
  /\ UNCHANGED <<now, tz, storeVars, gmVars, ck, ckWritten, st, du, statVars, appVars>>

\* goals as GoalForm creates them (any target day, or none), rendered at or
\* after their creation
InitProgress ==
  /\ now \in 0..(MaxDay * TicksPerDay)
  /\ tz = 0
  /\ profile = NoDate
  /\ checkins = {}
  /\ msStore = EmptyBag
  /\ goalStore = {}
  /\ goalNextId = 1
  /\ GmIdle /\ CkIdle /\ StatIdle /\ AppIdle /\ du = DuIdle
  /\ st = [list |-> <<>>, pc |-> "idle", result |-> 0]
  /\ \E done \in BOOLEAN, target \in {NoDate} \cup 0..MaxDay, created \in 0..now :
       pr = [goal |-> [is_completed |-> done, target_date |-> target,
                       created_at |-> created],
             pc |-> "start", result |-> JsNum("fin", 0, 1)]

NextProgress == ProgressCompute

SpecProgress == InitProgress /\ [][NextProgress]_vars

\* C9: getGoalProgress returns a number in [0, 100], never NaN.
C9_ProgressInRange ==
  pr.pc = "done" =>
    /\ pr.result.kind = "fin"
    /\ 0 <= pr.result.n /\ pr.result.n <= 100 * pr.result.d

\* C10: for an incomplete goal whose target_date is at or before created_at,
\* seen at or after created_at, getGoalProgress returns 100.
C10_DegenerateGoalIs100 ==
  (/\ pr.pc = "done"
   /\ ~pr.goal.is_completed
   /\ pr.goal.target_date # NoDate
   /\ ParseDate(pr.goal.target_date) <= pr.goal.created_at
   /\ now >= pr.goal.created_at)
    => pr.result.kind = "fin" /\ pr.result.n = 100 * pr.result.d

\* ------------------------------------------------------------- goal card
\* (mutation of JsCeilDiv: Math.floor instead of Math.ceil)
JsFloorDiv(a, b) == a \div b

\* Math.ceil(a / b) for b > 0
JsCeilDiv(a, b) == -((-a) \div b)

\* getDaysUntilTarget(targetDate) at instant t
getDaysUntilTarget(targetDate, t) ==
  LET diffTime == ParseDate(targetDate) - t
      diffDays == JsCeilDiv(diffTime, TicksPerDay)
  IN IF diffDays < 0 THEN DaysText(-diffDays, "days overdue")
     ELSE IF diffDays = 0 THEN DaysText(0, "Due today")
     ELSE IF diffDays = 1 THEN DaysText(1, "day left")
     ELSE DaysText(diffDays, "days left")

DaysUntilCompute ==
  /\ du.pc = "start"
  /\ du' = [du EXCEPT !.pc = "done", !.result = getDaysUntilTarget(du.target, now)]
  /\ UNCHANGED <<now, tz, storeVars, gmVars, ck, ckWritten, st, pr, statVars, appVars>>

\* the two functions of a goal card applied to a goal: getGoalProgress, and
\* getDaysUntilTarget when the goal has a target_date; the goal was created
\* on day 0 or at the start of day 1
InitGoalCard ==
  /\ now \in 0..(MaxCardDay * TicksPerDay + TicksPerDay - 1)
  /\ tz = 0
  /\ profile = NoDate
  /\ checkins = {}
  /\ msStore = EmptyBag
  /\ goalStore = {}
  /\ goalNextId = 1
  /\ GmIdle /\ CkIdle /\ StatIdle /\ AppIdle
  /\ st = [list |-> <<>>, pc |-> "idle", result |-> 0]
  /\ \E done \in BOOLEAN, target \in {NoDate} \cup 0..(MaxCardDay + 1),
        created \in 0..TicksPerDay :
       /\ created <= now
       /\ pr = [goal |-> [is_completed |-> done, target_date |-> target,
                          created_at |-> created],
                pc |-> "start", result |-> JsNum("fin", 0, 1)]
       /\ du = IF target = NoDate THEN DuIdle
               ELSE [target |-> target, pc |-> "start", result |-> DaysText(0, "")]

NextGoalCard == ProgressCompute \/ DaysUntilCompute

SpecGoalCard == InitGoalCard /\ [][NextGoalCard]_vars

\* C11: for a completed goal getGoalProgress is 100; for an incomplete goal
\* without target_date it is 0; for an incomplete goal with total > 0 it is
\* elapsed / total * 100 clamped to [0, 100], elapsed and total being the
\* time from created_at to now and to the target day, measured in days.
C11_ProgressIsReferenceRule ==
  pr.pc = "done" =>
    LET g == pr.goal
        total == ParseDate(g.target_date) - g.created_at
        elapsed == now - g.created_at
        r == pr.result
    IN IF g.is_completed THEN r.kind = "fin" /\ r.n = 100 * r.d
       ELSE IF g.target_date = NoDate THEN r.kind = "fin" /\ r.n = 0
       ELSE total > 0 =>
              /\ r.kind = "fin"
              /\ IF elapsed <= 0 THEN r.n = 0
                 ELSE IF elapsed >= total THEN r.n = 100 * r.d
                 ELSE r.n * total = 100 * elapsed * r.d

\* created day 0, target day 10, rendered at the start of day 5: 50
C11_Witness ==
  /\ pr.pc = "done"
  /\ pr.goal = [is_completed |-> FALSE, target_date |-> 10, created_at |-> 0]
  /\ now = 5 * TicksPerDay
  /\ pr.result.n = 50 * pr.result.d

\* C12: getDaysUntilTarget gives, with d the number of days from today (the
\* UTC day of now) to the target day, which is ceil((target - now) in days):
\* "N days overdue" with N = -d when d < 0, "Due today" when d = 0,
\* "1 day left" when d = 1, "d days left" otherwise.
C12_DaysUntilTarget ==
  du.pc = "done" =>
    LET d == du.target - UTCDay(now)
    IN du.result =
         IF d < 0 THEN DaysText(-d, "days overdue")
         ELSE IF d = 0 THEN DaysText(0, "Due today")
         ELSE IF d = 1 THEN DaysText(1, "day left")
         ELSE DaysText(d, "days left")

\* target three days before today, read in the middle of the day
C12_Witness ==
  /\ du.pc = "done"
  /\ du.target = UTCDay(now) - 3
  /\ now % TicksPerDay # 0
  /\ du.result = DaysText(3, "days overdue")

\* ------------------------------------------------------------- statistics
\* null for mood_score and for trigger_tags
NoScore == -1
NoTags == <<"null">>

\* a daily_checkins row as the statistics read it
Row(day, mood, tags) ==
  [id |-> day + 1, date |-> day, mood_score |-> mood, trigger_tags |-> tags]

Min(a, b) == IF a <= b THEN a ELSE b

\* .order('date', { ascending }) over the rows S
RECURSIVE OrderByDate(_, _)
OrderByDate(S, ascending) ==
  IF S = {} THEN <<>>
  ELSE LET r == CHOOSE x \in S :
                  \A y \in S : IF ascending THEN x.date <= y.date
                               ELSE x.date >= y.date
       IN <<r>> \o OrderByDate(S \ {r}, ascending)

\* .limit(n)
Limit(q, n) == SubSeq(q, 1, Min(n, Len(q)))

Dates(q) == [i \in 1..Len(q) |-> q[i].date]

\* x || 0
OrZero(x) == IF x = NoScore THEN 0 ELSE x

\* q.reduce((sum, item) => sum + (item.mood_score || 0), 0)
RECURSIVE SumMood(_)
SumMood(q) ==
  IF q = <<>> THEN 0 ELSE OrZero(Head(q).mood_score) + SumMood(Tail(q))

\* Math.round(x * 10) / 10 and x.toFixed(1): the nearest tenth
JsRound1(x) ==
  IF x.kind = "fin" THEN JsNum("fin", (20 * x.n + x.d) \div (2 * x.d), 10) ELSE x
\* Math.round(x)
JsRound(x) ==
  IF x.kind = "fin" THEN JsNum("fin", (2 * x.n + x.d) \div (2 * x.d), 1) ELSE x

\* (mutation of AverageMood: the length test is missing)
AverageMoodUnguarded(moodData) ==
  JsDiv(SumMood(moodData.rows), Len(moodData.rows))

\* fetchStats: avgMood = moodData?.length ? sum / moodData.length : 0
AverageMood(moodData) ==
  IF ~moodData.null /\ Len(moodData.rows) # 0
  THEN JsDiv(SumMood(moodData.rows), Len(moodData.rows))
  ELSE JsNum("fin", 0, 1)

\* ------------------------------------------------------------- Dashboard
\* the first render of a mounted Dashboard and its effect: fetchCheckIns and
\* fetchStats are called, each up to its first query; fetchStats keeps the
\* checkIns of that render
DbMounted ==
  [DbUnmounted EXCEPT !.mounted = TRUE, !.list = "pending", !.pc = "count",
                      !.closure = DbUnmounted.checkIns]

Dashboard_Mount ==
  /\ ~db.mounted /\ ~ch.mounted
  /\ db' = DbMounted
  /\ UNCHANGED <<now, tz, storeVars, gmVars, ck, ckWritten, fnVars, ch, appVars>>

\* fetchCheckIns: the query and setCheckIns(data || [])
fetchCheckIns(ok) ==
  /\ db.mounted /\ db.list = "pending"
  /\ db' = [db EXCEPT !.list = "done",
                      !.checkIns = IF ok THEN Limit(OrderByDate(checkins, FALSE), 7)
                                   ELSE <<>>]
  /\ UNCHANGED <<now, tz, storeVars, gmVars, ck, ckWritten, fnVars, ch, appVars>>

\* fetchStats, first await: the count query
fetchStats_Count(ok) ==
  /\ db.mounted /\ db.pc = "count"
  /\ db' = [db EXCEPT !.pc = "mood",
                      !.count = IF ok THEN Cardinality(checkins) ELSE 0]
  /\ UNCHANGED <<now, tz, storeVars, gmVars, ck, ckWritten, fnVars, ch, appVars>>

\* fetchStats, second await: the mood query of the last 30 days, avgMood and
\* setStats
fetchStats_Mood(ok) ==
  /\ db.mounted /\ db.pc = "mood"
  /\ LET since == UTCDay(now - 30 * TicksPerDay)
         moodData == IF ok
                     THEN [null |-> FALSE,
                           rows |-> OrderByDate({r \in checkins : r.date >= since}, TRUE)]
                     ELSE NoData
         avgMood == AverageMood(moodData)
     IN db' = [db EXCEPT !.pc = "done", !.moodData = moodData, !.avgMood = avgMood,
                         !.stats = [totalCheckIns |-> db.count,
                                    avgMood |-> JsRound1(avgMood),
                                    streak |-> calculateStreak(Dates(db.closure), now, tz)]]
  /\ UNCHANGED <<now, tz, storeVars, gmVars, ck, ckWritten, fnVars, ch, appVars>>

\* ------------------------------------------------------------- ProgressCharts
TimeRanges == {7, 30, 90}

\* the entries of the triggerStats object: (mutation of StatsGet) a key is
\* never found
StatsGetNone(stats, k) == 0

\* stats[k] || 0
StatsGet(stats, k) ==
  IF \E x \in stats : x.key = k THEN (CHOOSE x \in stats : x.key = k).count ELSE 0
\* stats[k] = v
StatsPut(stats, k, v) == {x \in stats : x.key # k} \cup {[key |-> k, count |-> v]}

\* checkIn.trigger_tags.forEach(trigger => { stats[trigger] = ... + 1 })
RECURSIVE CountTags(_, _)
CountTags(stats, tags) ==
  IF tags = <<>> THEN stats
  ELSE CountTags(StatsPut(stats, Head(tags), StatsGet(stats, Head(tags)) + 1),
                 Tail(tags))

\* data.forEach(checkIn => { if (checkIn.trigger_tags) ... })
RECURSIVE TriggerStatsFrom(_, _)
TriggerStatsFrom(stats, data) ==
  IF data = <<>> THEN stats
  ELSE TriggerStatsFrom(IF Head(data).trigger_tags # NoTags
                        THEN CountTags(stats, Head(data).trigger_tags)
                        ELSE stats,
                        Tail(data))

calculateTriggerStats(data) == TriggerStatsFrom({}, data)

\* fetchData up to its query: setLoading(true), the first day of the window
ChFetching(c, range) ==
  [c EXCEPT !.loading = TRUE, !.fetching = TRUE,
            !.since = UTCDay(now - range * TicksPerDay)]

\* onNavigate('progress') on the dashboard: HomePage replaces Dashboard by a
\* freshly mounted ProgressCharts, whose effect calls fetchData
ProgressCharts_Mount ==
  /\ db.mounted
  /\ db' = DbUnmounted
  /\ ch' = ChFetching([ChUnmounted EXCEPT !.mounted = TRUE], ChUnmounted.timeRange)
  /\ UNCHANGED <<now, tz, storeVars, gmVars, ck, ckWritten, fnVars, appVars>>

\* fetchData: the query and the continuation
ProgressCharts_fetchData(ok) ==
  /\ ch.mounted /\ ch.fetching
  /\ LET data == OrderByDate({r \in checkins : r.date >= ch.since}, TRUE)
     IN ch' = [ch EXCEPT !.fetching = FALSE, !.loading = FALSE,
                         !.checkIns = IF ok THEN data ELSE @,
                         !.triggerStats = IF ok THEN calculateTriggerStats(data) ELSE @]
  /\ UNCHANGED <<now, tz, storeVars, gmVars, ck, ckWritten, fnVars, db, appVars>>

\* a time range button (rendered when loading is false): setTimeRange(range)
\* and the effect on [timeRange]
setTimeRange(range) ==
  /\ ch.mounted /\ ~ch.loading
  /\ range # ch.timeRange
  /\ ch' = ChFetching([ch EXCEPT !.timeRange = range], range)
  /\ UNCHANGED <<now, tz, storeVars, gmVars, ck, ckWritten, fnVars, db, appVars>>

\* onBack (rendered when loading is false): HomePage shows the dashboard
ProgressCharts_onBack ==
  /\ ch.mounted /\ ~ch.loading
  /\ ch' = ChUnmounted
  /\ db' = DbMounted
  /\ UNCHANGED <<now, tz, storeVars, gmVars, ck, ckWritten, fnVars, appVars>>

\* the Summary Stats are rendered
StatsShown == ch.mounted /\ ~ch.loading /\ Len(ch.checkIns) # 0

\* Average Mood: (sum / checkIns.length).toFixed(1)
PageAverageMood == JsRound1(JsDiv(SumMood(ch.checkIns), Len(ch.checkIns)))
\* Check-in Consistency: Math.round((checkIns.length / parseInt(timeRange)) * 100)
PageConsistency == JsRound(JsTimes100(JsDiv(Len(ch.checkIns), ch.timeRange)))

\* what the user's daily_checkins hold on day StatsDay: nothing; two rows,
\* today's and yesterday's; one row on each of the last eight days, some
\* without mood_score or trigger_tags; a row of today and one of 35 days ago
StatsStores ==
  LET d == StatsDay
  IN {{},
      {Row(d - 1, 8, <<"Stress">>), Row(d, 4, <<"Stress", "Boredom">>)},
      {Row(x, IF x % 3 = 0 THEN NoScore ELSE 4 + 4 * (x % 2),
              IF x % 3 = 1 THEN NoTags
              ELSE IF x % 2 = 0 THEN <<"Stress", "Anger">> ELSE <<>>)
         : x \in (d - 7)..d},
      {Row(d - 35, 8, <<"Boredom">>), Row(d, 4, NoTags)}}

InitStats ==
  /\ now \in {StatsDay * TicksPerDay, StatsDay * TicksPerDay + 1}
  /\ tz = 0
  /\ profile = NoDate
  /\ checkins \in StatsStores
  /\ msStore = EmptyBag
  /\ goalStore = {}
  /\ goalNextId = 1
  /\ GmIdle /\ CkIdle /\ FnIdle /\ StatIdle /\ AppIdle

NextStats ==
  \/ Dashboard_Mount
  \/ ProgressCharts_Mount
  \/ ProgressCharts_onBack
  \/ \E range \in TimeRanges : setTimeRange(range)
  \/ \E ok \in BOOLEAN :
       \/ fetchCheckIns(ok)
       \/ fetchStats_Count(ok)
       \/ fetchStats_Mood(ok)
       \/ ProgressCharts_fetchData(ok)

SpecStats == InitStats /\ [][NextStats]_vars

\* ------------------------------------------------------------- claims C13..C15, C20
\* sum of the mood scores of q[1..i], a missing score counted as 0
RECURSIVE SumTo(_, _)
SumTo(q, i) ==
  IF i = 0 THEN 0
  ELSE (IF q[i].mood_score = NoScore THEN 0 ELSE q[i].mood_score) + SumTo(q, i - 1)

\* x is the exact quotient a / b
IsQuotient(x, a, b) == x.kind = "fin" /\ x.n * b = a * x.d
\* x is a number of tenths nearest to a / b
IsNearestTenth(x, a, b) ==
  /\ x.kind = "fin" /\ x.d = 10
  /\ 2 * (10 * a - x.n * b) <= b
  /\ 2 * (x.n * b - 10 * a) <= b

\* C13: the average mood that fetchStats computes is sum(mood_score, missing
\* as 0) / number of records, and 0 when there are no records (or no data);
\* the dashboard shows it to the nearest tenth; the progress page shows the
\* same quotient to the nearest tenth and evaluates it only when it has
\* records; no division yields NaN or Infinity.
C13_AverageMood ==
  /\ db.pc = "done" =>
       LET q == db.moodData.rows
       IN IF db.moodData.null \/ Len(q) = 0
          THEN /\ db.avgMood = JsNum("fin", 0, 1)
               /\ db.stats.avgMood.kind = "fin" /\ db.stats.avgMood.n = 0
          ELSE /\ IsQuotient(db.avgMood, SumTo(q, Len(q)), Len(q))
               /\ IsNearestTenth(db.stats.avgMood, SumTo(q, Len(q)), Len(q))
  /\ StatsShown =>
       IsNearestTenth(PageAverageMood, SumTo(ch.checkIns, Len(ch.checkIns)),
                      Len(ch.checkIns))

\* the dashboard's average over the rows {mood 8}, {mood 4} is 6.0
C13_Witness ==
  /\ db.pc = "done"
  /\ ~db.moodData.null
  /\ [i \in 1..Len(db.moodData.rows) |-> db.moodData.rows[i].mood_score] = <<8, 4>>
  /\ db.stats.avgMood = JsNum("fin", 60, 10)

\* the positions (record, index) of the tags in the trigger_tags lists of data
TagPositions(data) ==
  UNION {{<<i, j>> : j \in 1..Len(data[i].trigger_tags)} :
           i \in {k \in 1..Len(data) : data[k].trigger_tags # NoTags}}
Occurrences(tag, data) ==
  Cardinality({p \in TagPositions(data) : data[p[1]].trigger_tags[p[2]] = tag})

RECURSIVE SumCounts(_)
SumCounts(stats) ==
  IF stats = {} THEN 0
  ELSE LET x == CHOOSE y \in stats : TRUE IN x.count + SumCounts(stats \ {x})

\* C14: triggerStats has one entry per tag that occurs in the trigger_tags of
\* the check-ins shown, its count is the number of occurrences of the tag, a
\* tag that occurs nowhere is not a key, and the counts add up to the number
\* of tag occurrences.
C14_TriggerHistogram ==
  LET data == ch.checkIns
      stats == ch.triggerStats
      tags == {data[p[1]].trigger_tags[p[2]] : p \in TagPositions(data)}
  IN /\ \A x, y \in stats : x.key = y.key => x = y
     /\ {x.key : x \in stats} = tags
     /\ \A x \in stats : x.count = Occurrences(x.key, data)
     /\ SumCounts(stats) = Cardinality(TagPositions(data))

\* [{Stress}, {Stress, Boredom}] gives {Stress: 2, Boredom: 1}
C14_Witness ==
  /\ ch.mounted /\ ~ch.loading
  /\ [i \in 1..Len(ch.checkIns) |-> ch.checkIns[i].trigger_tags]
       = << <<"Stress">>, <<"Stress", "Boredom">> >>
  /\ ch.triggerStats = {[key |-> "Stress", count |-> 2], [key |-> "Boredom", count |-> 1]}

C20_StreakOfFetchedCheckIns ==
  (db.mounted /\ db.list = "done" /\ db.pc = "done")
    => db.stats.streak = calculateStreak(Dates(db.checkIns), now, tz)

\* ------------------------------------------------------------- claims C16..C19
OfType(S, type) == {p \in S : p[1] = type}

\* C16: when the user has no recovery_start_date (no profile row, or none
\* read), no run of checkMilestones issues an insert of a days_clean
\* milestone, and the run still compares the check_ins_completed thresholds
\* with the count and issues the inserts for those that qualify.
C16_NoStartNoDaysClean ==
  \A s \in Sessions :
    profile = NoDate =>
      /\ ~gmRun[s].evalDays
      /\ OfType(Attempted(s), "days_clean") = {}
      /\ gmPc[s] = "done" =>
           OfType(Attempted(s), "check_ins_completed")
             = OfType(Qualifying(s), "check_ins_completed")

\* no recovery_start_date, 8 check-ins: the run inserts check_ins_completed 7
\* and nothing else
C16_Witness ==
  \E s \in Sessions :
    /\ profile = NoDate
    /\ gmPc[s] = "done"
    /\ gmRun[s].count = 8
    /\ Inserted(s) = {<<"check_ins_completed", 7>>}

\* C17: every milestone of a session's local list is a row of the store, and
\* the milestone shown in the celebration modal is a row of the store.
C17_PersistedBeforeReported ==
  \A s \in Sessions :
    /\ \A p \in Pairs : gmMilestones[s][p] <= msStore[p]
    /\ gmShow[s].kind = "milestone" => msStore[<<gmShow[s].type, gmShow[s].value>>] >= 1

\* a run has inserted days_clean 30, which is in the store, in the local list
\* and in the modal
C17_Witness ==
  \E s \in Sessions :
    /\ gmShow[s] = ShowMilestone("days_clean", 30)
    /\ <<"days_clean", 30>> \in Inserted(s)
    /\ gmMilestones[s][<<"days_clean", 30>>] = 1
    /\ msStore[<<"days_clean", 30>>] = 1

\* C18: in a pass in which an insert has failed, every milestone the pass
\* inserted is still in the store and in the local list, no threshold is
\* attempted twice, and at the end of the pass an insert has been issued for
\* every qualifying threshold of both types.
C18_NotAllOrNothing ==
  \A s \in Sessions :
    LET log == gmRun[s].log
    IN (\E i \in 1..Len(log) : ~log[i].ok) =>
         /\ \A p \in Inserted(s) : msStore[p] >= 1 /\ gmMilestones[s][p] >= 1
         /\ \A i, j \in 1..Len(log) :
              (log[i].type = log[j].type /\ log[i].value = log[j].value) => i = j
         /\ gmPc[s] = "done" => Attempted(s) = Qualifying(s)

\* days_clean 1 inserted, 7 failed, 30 inserted, then check_ins_completed 7
\* inserted, all in one pass
C18_Witness ==
  \E s \in Sessions :
    /\ gmPc[s] = "done"
    /\ Len(gmRun[s].log) = 4
    /\ [i \in 1..4 |-> gmRun[s].log[i].ok] = <<TRUE, FALSE, TRUE, TRUE>>
    /\ gmRun[s].log[2].value = 7 /\ gmRun[s].log[4].type = "check_ins_completed"
    /\ msStore[<<"days_clean", 1>>] = 1 /\ gmMilestones[s][<<"days_clean", 30>>] = 1

\* what GoalsMilestones gives back to its caller and its user: checkMilestones
\* and fetchData return nothing, so it is the rendered state
GmVisible(s) == <<gmGoals[s], gmMilestones[s], gmShow[s]>>

\* C19 (for the inserts): each failed milestone insert is reported, i.e. the
\* step in which an insert of a run fails changes what the component gives
\* back to its caller or shows.
C19_FailuresSurfaced ==
  [][\A s \in Sessions :
       (/\ Len(gmRun'[s].log) = Len(gmRun[s].log) + 1
        /\ ~gmRun'[s].log[Len(gmRun'[s].log)].ok)
         => GmVisible(s)' # GmVisible(s)]_vars

\* ------------------------------------------------------------- claim C21
\* C21: calculateStreak returns a number between 0 and the number of records
\* it was given: the end of the list ends the streak.
C21_StreakAtMostLength ==
  st.pc = "done" => st.result \in 0..Len(st.list)

\* the list ends before the streak does: the three most recent days of a
\* longer history, all consecutive up to today
C21_Witness ==
  /\ st.pc = "done"
  /\ tz = 0
  /\ Len(st.list) = MaxLen
  /\ st.list[MaxLen] > 0
  /\ st.result = Len(st.list)

\* ============================================================= HomePage
\* Everything outside the application shell components
shellFrame == <<now, tz, storeVars, gmVars, ck, ckWritten, fnVars, statVars>>

Users == {1, 2}
Views ==
  {"dashboard", "checkin", "progress", "strategies", "contacts", "goals",
   "settings"}
\* the views the Quick Actions of Dashboard pass to onNavigate
QuickActions ==
  {"checkin", "strategies", "contacts", "progress", "goals", "settings"}

\* A variant without the `if (!user)` return
ScreenIgnoringUser(h) ==
  IF h.loading THEN "loading" ELSE h.currentView
\* What HomePage returns: the loading screen, the auth page, or the view
Screen(h) ==
  IF h.loading THEN "loading"
  ELSE IF h.user = NoUser THEN "auth"
  ELSE h.currentView

\* After a render: a DailyCheckIn that is no longer on screen is unmounted;
\* its handleSubmit, if in flight, still holds onComplete
Rendered(h) ==
  IF h.isSubmitting /\ Screen(h) # "checkin"
  THEN [h EXCEPT !.isSubmitting = FALSE, !.orphans = @ + 1]
  ELSE h

\* supabase.auth.getUser().then(...)
getUser_Then(u) ==
  /\ hp.getUser
  /\ hp' = Rendered([hp EXCEPT !.user = u, !.loading = FALSE, !.getUser = FALSE])
  /\ UNCHANGED <<shellFrame, ec, cs, bt, sp>>

\* the onAuthStateChange listener
onAuthStateChange(u) ==
  /\ hp' = Rendered([hp EXCEPT !.user = u, !.loading = FALSE])
  /\ UNCHANGED <<shellFrame, ec, cs, bt, sp>>

\* a Quick Action of the rendered Dashboard: onNavigate = setCurrentView
onNavigate(view) ==
  /\ Screen(hp) = "dashboard"
  /\ hp' = [hp EXCEPT !.currentView = view]
  /\ UNCHANGED <<shellFrame, ec, cs, bt, sp>>

\* the Back button of the checkin view, or onBack of the rendered component
HomePage_onBack ==
  /\ Screen(hp) \in QuickActions
  /\ hp' = Rendered([hp EXCEPT !.currentView = "dashboard"])
  /\ UNCHANGED <<shellFrame, ec, cs, bt, sp>>

\* the rendered DailyCheckIn starts handleSubmit (its button is disabled while
\* isSubmitting)
HomePage_Submit ==
  /\ Screen(hp) = "checkin"
  /\ ~hp.isSubmitting
  /\ hp.orphans < MaxOrphans
  /\ hp' = [hp EXCEPT !.isSubmitting = TRUE]
  /\ UNCHANGED <<shellFrame, ec, cs, bt, sp>>

\* the store answers the rendered DailyCheckIn: onComplete on success
HomePage_SubmitDone(ok) ==
  /\ hp.isSubmitting
  /\ hp' = [hp EXCEPT !.isSubmitting = FALSE,
                      !.currentView = IF ok THEN "dashboard" ELSE @]
  /\ UNCHANGED <<shellFrame, ec, cs, bt, sp>>

\* the store answers a DailyCheckIn that was unmounted meanwhile: its
\* onComplete is still HomePage's setCurrentView('dashboard')
HomePage_OrphanDone(ok) ==
  /\ hp.orphans > 0
  /\ hp' = Rendered([hp EXCEPT !.orphans = @ - 1,
                               !.currentView = IF ok THEN "dashboard" ELSE @])
  /\ UNCHANGED <<shellFrame, ec, cs, bt, sp>>

InitHome ==
  /\ now = 0 /\ tz = 0
  /\ profile = NoDate /\ checkins = {} /\ msStore = EmptyBag
  /\ goalStore = {} /\ goalNextId = 1 /\ loads = 0
  /\ GmIdle /\ CkIdle /\ FnIdle /\ StatIdle /\ AppIdle

NextHome ==
  \/ \E u \in Users \cup {NoUser} : getUser_Then(u)
  \/ \E u \in Users \cup {NoUser} : onAuthStateChange(u)
  \/ \E view \in QuickActions : onNavigate(view)
  \/ HomePage_onBack
  \/ HomePage_Submit
  \/ \E ok \in BOOLEAN : HomePage_SubmitDone(ok)
  \/ \E ok \in BOOLEAN : HomePage_OrphanDone(ok)

SpecHome == InitHome /\ [][NextHome]_vars

\* ------------------------------------------------------------- claim C22
\* C22: currentView ranges over the seven views and starts as dashboard; a
\* non-dashboard view changes only to dashboard; a non-dashboard view is
\* entered only from dashboard; and while loading is false and user is null
\* the auth page is rendered whatever currentView is.
C22_ViewRouting ==
  /\ hp.currentView = "dashboard"
  /\ [](hp.currentView \in Views)
  /\ [][/\ hp.currentView # "dashboard"
           => hp'.currentView \in {hp.currentView, "dashboard"}
        /\ hp'.currentView \notin {hp.currentView, "dashboard"}
           => hp.currentView = "dashboard"]_vars
  /\ [](~hp.loading /\ hp.user = NoUser => Screen(hp) = "auth")

C22_Witness ==
  /\ ~hp.loading
  /\ hp.user = NoUser
  /\ hp.currentView = "checkin"
  /\ hp.orphans > 0

InitTwoGoals ==
  /\ now = 1
  /\ tz = 0
  /\ profile = NoDate
  /\ checkins = {}
  /\ msStore = EmptyBag
  /\ goalStore = {Goal(1, "a", FALSE, NoDate), Goal(2, "b", TRUE, 0)}
  /\ goalNextId = MaxGoals + 1
  /\ GmIdle /\ CkIdle /\ FnIdle /\ StatIdle /\ AppIdle

\* the view is loaded and its toggle and delete buttons are used
NextTwoGoals ==
  \E s \in GoalSessions :
    \/ GoalsMilestones_Mount(s)
    \/ GoalsMilestones_onBack(s)
    \/ \E ok \in BOOLEAN :
         \/ fetchData_Goals(s, ok)
         \/ fetchData_Milestones(s, ok)
         \/ checkMilestones_Profile(s, ok)
         \/ checkMilestones_Count(s, ok)
         \/ \E r \in gmReqs[s] : toggleGoalCompletion_Store(s, r, ok)
         \/ \E r \in gmReqs[s] : deleteGoal_Store(s, r, ok)
    \/ \E i \in 1..(MaxGoals + 1) :
         \/ toggleGoalCompletion_Call(s, i)
         \/ \E confirmed \in BOOLEAN : deleteGoal_Call(s, i, confirmed)

SpecTwoGoals == InitTwoGoals /\ [][NextTwoGoals]_vars

\* the goals of a list other than the goal `id`, in order
Others(q, id) == SelectSeq(q, LAMBDA g : g.id # id)

\* C24: a step that completes a toggleGoalCompletion or deleteGoal call
\* leaves every other goal of the local list as it was; it changes the local
\* list or shows the celebration only if the store then holds the result of
\* the call (no row with the id after a delete, the toggled values in the row
\* with the id after a toggle); the only change is the removal of the goal or
\* the toggled values on it, and the celebration is shown only for that goal
\* when it was being completed.  The store changes only in a step that
\* completes an issued call, so a declined confirmation changes nothing.
C24_LocalChangeOnlyAfterSuccess ==
  [][/\ \A s \in Sessions : \A r \in gmReqs[s] \ gmReqs'[s] :
          r.op \in {"toggle", "delete"} =>
            /\ Others(gmGoals'[s], r.id) = Others(gmGoals[s], r.id)
            /\ (gmGoals'[s] # gmGoals[s] \/ gmShow'[s] # gmShow[s]) =>
                 \A g \in goalStore' :
                   g.id = r.id =>
                     /\ r.op = "toggle"
                     /\ g.is_completed = r.is_completed
                     /\ g.completed_date = r.completed_date
            /\ IF r.op = "delete"
               THEN gmGoals'[s] \in {gmGoals[s], Others(gmGoals[s], r.id)}
               ELSE /\ Len(gmGoals'[s]) = Len(gmGoals[s])
                    /\ \A i \in 1..Len(gmGoals[s]) :
                         gmGoals'[s][i] \in
                           {gmGoals[s][i],
                            [gmGoals[s][i] EXCEPT
                               !.is_completed = r.is_completed,
                               !.completed_date = r.completed_date]}
            /\ gmShow'[s] # gmShow[s] =>
                 r.op = "toggle" /\ r.is_completed /\ gmShow'[s] = ShowGoal(r.id)
     /\ goalStore' # goalStore =>
          \E s \in Sessions : gmReqs[s] \ gmReqs'[s] # {}]_vars

\* a list of two goals: one was completed and is celebrated, the other one is
\* still as the store holds it
C24_Witness ==
  \E s \in Sessions :
    /\ Len(gmGoals[s]) = 2
    /\ \E i, j \in 1..2 :
         /\ gmShow[s] = ShowGoal(gmGoals[s][i].id)
         /\ gmGoals[s][i].is_completed
         /\ ~gmGoals[s][j].is_completed
         /\ gmGoals[s][j].id # gmGoals[s][i].id
         /\ gmGoals[s][j] \in goalStore

\* ------------------------------------------------------------- claim C25
\* C25: every submission ends with isSubmitting false.  The step that ends
\* it either leaves the store, hasCheckedInToday and todaysCheckIn as they
\* were and the component mounted (failure: onComplete is not called), or
\* leaves hasCheckedInToday true and todaysCheckIn the stored record with the
\* submitted mood, and is the one step in which onComplete unmounts the
\* component (success).
C25_SubmissionEnds ==
  /\ \A s \in Sessions : ck[s].isSubmitting ~> ~ck[s].isSubmitting
  /\ [][\A s \in Sessions :
          (ck[s].isSubmitting /\ ~ck'[s].isSubmitting) =>
            \/ /\ checkins' = checkins
               /\ ck'[s] = [ck[s] EXCEPT !.isSubmitting = FALSE,
                                         !.req = CkUnmounted.req]
            \/ /\ ck[s].mounted /\ ~ck'[s].mounted
               /\ ck'[s].hasCheckedInToday
               /\ \E c \in checkins' :
                    /\ c.id = ck'[s].todaysId
                    /\ c.mood_score = ck[s].req.mood
                    /\ c.date = ckWritten'.date]_vars

\* a failed submission followed by a successful one from the same component
C25_Witness ==
  \E s \in Sessions :
    /\ ~ck[s].mounted /\ ~ck[s].isSubmitting
    /\ ck[s].hasCheckedInToday
    /\ \E c \in checkins : c.id = ck[s].todaysId /\ c.mood_score = 8
    /\ Cardinality(checkins) = MaxRows

\* ------------------------------------------------------------- claim C26
\* C26: whenever the progress page is rendered with loading false,
\* triggerStats is the histogram of the displayed checkIns, and the displayed
\* checkIns (if any were ever fetched) are the rows the store holds for the
\* window of the currently selected timeRange.
C26_DisplayedMatchesRange ==
  (ch.mounted /\ ~ch.loading) =>
    /\ ch.triggerStats = calculateTriggerStats(ch.checkIns)
    /\ \/ ch.checkIns = <<>>
       \/ ch.checkIns =
            OrderByDate({r \in checkins :
                           r.date >= UTCDay(now - ch.timeRange * TicksPerDay)},
                        TRUE)

\* ============================================================= CopingStrategies
\* q without its i-th element
RemoveAt(q, i) == SubSeq(q, 1, i - 1) \o SubSeq(q, i + 1, Len(q))

\* useEffect(() => { fetchStrategies() }, [])
CopingStrategies_Mount ==
  /\ ~cs.mounted
  /\ cs' = [cs EXCEPT !.mounted = TRUE, !.loading = TRUE]
  /\ UNCHANGED <<shellFrame, hp, ec, bt, sp>>

\* fetchStrategies: the query and the continuation
fetchStrategies(ok) ==
  /\ cs.mounted /\ cs.loading
  /\ cs' = [cs EXCEPT !.loading = FALSE,
                      !.listed = IF ok THEN TRUE ELSE @,
                      !.usage_count = IF ok THEN cs.stored ELSE @,
                      !.initial = IF ok THEN cs.stored ELSE @,
                      !.succeeded = IF ok THEN 0 ELSE @]
  /\ UNCHANGED <<shellFrame, hp, ec, bt, sp>>

\* useStrategy(strategy) from the rendered list, up to its store call: the
\* update carries strategy.usage_count + 1 of the rendered strategy
useStrategy_Call ==
  /\ cs.mounted /\ ~cs.loading /\ cs.listed /\ ~cs.timer
  /\ cs.usage_count < MaxUses
  /\ Len(cs.reqs) < MaxUses
  /\ cs' = [cs EXCEPT !.reqs = Append(@, cs.usage_count + 1)]
  /\ UNCHANGED <<shellFrame, hp, ec, bt, sp>>

\* useStrategy: the update at the store and the continuation; the strategy
\* is a Breathing one, so the BreathingTimer is shown
useStrategy_Store(i, ok) ==
  /\ i \in 1..Len(cs.reqs)
  /\ cs' = [cs EXCEPT !.reqs = RemoveAt(@, i),
                      !.stored = IF ok THEN cs.reqs[i] ELSE @,
                      !.usage_count = IF ok THEN @ + 1 ELSE @,
                      !.succeeded = IF ok THEN @ + 1 ELSE @,
                      !.timer = TRUE]
  /\ bt' = IF cs.timer THEN bt ELSE BtInitial
  /\ UNCHANGED <<shellFrame, hp, ec, sp>>

\* ------------------------------------------------------------- BreathingTimer
Phases == <<"inhale", "hold1", "exhale", "hold2">>

\* (mutation of NextIndex: a phase is skipped)
NextIndexSkipping(phase) ==
  ((CHOOSE i \in 1..4 : Phases[i] = phase) - 1 + 2) % 4

\* (phases.indexOf(phase) + 1) % phases.length, 0-based
NextIndex(phase) ==
  ((CHOOSE i \in 1..4 : Phases[i] = phase) - 1 + 1) % 4

\* the Start / Pause button; an effect pending for count 0 runs first
BreathingTimer_Toggle ==
  /\ cs.timer
  /\ ~(bt.isActive /\ bt.count = 0)
  /\ bt' = [bt EXCEPT !.isActive = ~@]
  /\ UNCHANGED <<shellFrame, hp, ec, cs, sp>>

\* the interval of the effect fires: setCount(count - 1)
BreathingTimer_Tick ==
  /\ cs.timer
  /\ bt.isActive /\ bt.count > 0
  /\ bt' = [bt EXCEPT !.count = @ - 1]
  /\ UNCHANGED <<shellFrame, hp, ec, cs, sp>>

\* the effect at count 0: next phase, count 4, one more cycle on wrap-around
BreathingTimer_Advance ==
  /\ cs.timer
  /\ bt.isActive /\ bt.count = 0
  /\ bt.cycles < MaxCycles
  /\ bt' = [bt EXCEPT !.phase = Phases[NextIndex(bt.phase) + 1],
                      !.count = 4,
                      !.cycles = IF NextIndex(bt.phase) = 0 THEN @ + 1 ELSE @]
  /\ UNCHANGED <<shellFrame, hp, ec, cs, sp>>

\* Done: onClose hides the timer and clears activeStrategy
BreathingTimer_onClose ==
  /\ cs.timer
  /\ cs' = [cs EXCEPT !.timer = FALSE]
  /\ bt' = BtInitial
  /\ UNCHANGED <<shellFrame, hp, ec, sp>>

NextStrategies ==
  \/ CopingStrategies_Mount
  \/ \E ok \in BOOLEAN : fetchStrategies(ok)
  \/ useStrategy_Call
  \/ \E i \in 1..MaxUses, ok \in BOOLEAN : useStrategy_Store(i, ok)
  \/ BreathingTimer_Toggle
  \/ BreathingTimer_Tick
  \/ BreathingTimer_Advance
  \/ BreathingTimer_onClose

SpecStrategies == InitHome /\ [][NextStrategies]_vars

\* ------------------------------------------------------------- claim C27
\* C27: once no useStrategy call is in flight, the usage_count of the local
\* list equals the stored usage_count, and both equal the count that was
\* fetched plus the number of successful calls.
C27_UsageCountInStep ==
  (cs.mounted /\ cs.listed /\ cs.reqs = <<>>) =>
    /\ cs.usage_count = cs.stored
    /\ cs.stored = cs.initial + cs.succeeded

\* ------------------------------------------------------------- claim C28
\* the phase that follows a phase in the claim's order
PhaseAfter(phase) ==
  CASE phase = "inhale" -> "hold1"
    [] phase = "hold1" -> "exhale"
    [] phase = "exhale" -> "hold2"
    [] phase = "hold2" -> "inhale"

\* C28: count stays in 0..4; while the timer is shown, a step changes count
\* either from c > 0 to c - 1 with phase and cycles unchanged, or from 0 to 4
\* with the phase advanced in the order inhale, hold1, exhale, hold2, inhale;
\* phase changes only in such a step; cycles changes only by +1 in the step
\* from hold2 to inhale, and changes in every such step; while isActive is
\* false, phase, count and cycles do not change.
C28_BreathingCycle ==
  /\ [](bt.count \in 0..4 /\ bt.phase \in {Phases[i] : i \in 1..4})
  /\ [][(cs.timer /\ cs'.timer) =>
          /\ ~bt.isActive =>
               /\ bt'.phase = bt.phase
               /\ bt'.count = bt.count
               /\ bt'.cycles = bt.cycles
          /\ (bt'.count # bt.count \/ bt'.phase # bt.phase) =>
               \/ /\ bt.count > 0
                  /\ bt'.count = bt.count - 1
                  /\ bt'.phase = bt.phase
                  /\ bt'.cycles = bt.cycles
               \/ /\ bt.count = 0
                  /\ bt'.count = 4
                  /\ bt'.phase = PhaseAfter(bt.phase)
                  /\ bt'.cycles =
                       bt.cycles + (IF bt.phase = "hold2" THEN 1 ELSE 0)
          /\ bt'.cycles # bt.cycles =>
               /\ bt.phase = "hold2" /\ bt'.phase = "inhale"
               /\ bt'.cycles = bt.cycles + 1]_vars

\* a full cycle has been breathed and the timer was paused in the second one
C28_Witness ==
  /\ cs.timer
  /\ bt.cycles = 1
  /\ bt.phase = "hold1"
  /\ bt.count = 2
  /\ ~bt.isActive

\* ============================================================= Settings
\* useEffect(() => { fetchProfile() }, [])
Settings_Mount ==
  /\ ~sp.mounted
  /\ sp' = [sp EXCEPT !.mounted = TRUE, !.loading = TRUE]
  /\ UNCHANGED <<shellFrame, hp, ec, cs, bt>>

\* fetchProfile: the query and the continuation (the profile row exists, so
\* a failure is not PGRST116 and createProfile is not called)
fetchProfile(ok) ==
  /\ sp.mounted /\ sp.loading
  /\ sp' = [sp EXCEPT !.loading = FALSE,
                      !.hasProfile = IF ok THEN TRUE ELSE @,
                      !.profile = IF ok THEN sp.stored ELSE @,
                      !.expected = IF ok THEN sp.stored ELSE @]
  /\ UNCHANGED <<shellFrame, hp, ec, cs, bt>>

\* a notification checkbox is changed: updateProfile up to its store call,
\* with the whole notification_preferences of the rendered profile and the
\* key set to e.target.checked
updateProfile_Call(key) ==
  /\ sp.mounted /\ ~sp.loading /\ sp.hasProfile
  /\ Len(sp.reqs) < MaxSaves
  /\ sp' = [sp EXCEPT !.saving = TRUE,
                      !.reqs = Append(@, [key |-> key,
                                          prefs |-> [sp.profile EXCEPT ![key] = ~@]])]
  /\ UNCHANGED <<shellFrame, hp, ec, cs, bt>>

\* updateProfile: the update at the store and the continuation
updateProfile_Store(i, ok) ==
  /\ i \in 1..Len(sp.reqs)
  /\ LET r == sp.reqs[i]
     IN sp' = [sp EXCEPT !.reqs = RemoveAt(@, i),
                         !.stored = IF ok THEN r.prefs ELSE @,
                         !.profile = IF ok THEN r.prefs ELSE @,
                         !.expected = IF ok THEN [@ EXCEPT ![r.key] = r.prefs[r.key]]
                                      ELSE @,
                         !.saving = FALSE]
  /\ UNCHANGED <<shellFrame, hp, ec, cs, bt>>

NextSettings ==
  \/ Settings_Mount
  \/ \E ok \in BOOLEAN : fetchProfile(ok)
  \/ \E key \in DOMAIN DefaultPrefs : updateProfile_Call(key)
  \/ \E i \in 1..MaxSaves, ok \in BOOLEAN : updateProfile_Store(i, ok)

SpecSettings == InitHome /\ [][NextSettings]_vars

\* ------------------------------------------------------------- claim C29
\* C29: once no updateProfile call is in flight, the stored and the local
\* notification_preferences both hold every change of a successful call.
C29_BothChangesKept ==
  (sp.mounted /\ sp.hasProfile /\ sp.reqs = <<>>) =>
    /\ sp.stored = sp.expected
    /\ sp.profile = sp.expected

\* ============================================================= EmergencyContacts
\* A phone string is the sequence of its characters.
\* the phone fields of CRISIS_HOTLINES
CRISIS_HOTLINES ==
  {<<"9", "8", "8">>,
   <<"T", "e", "x", "t", " ", "H", "O", "M", "E", " ", "t", "o", " ",
     "7", "4", "1", "7", "4", "1">>,
   <<"1", "-", "8", "0", "0", "-", "6", "6", "2", "-", "4", "3", "5", "7">>,
   <<"9", "1", "1">>}

\* the phone fields of the user's contacts: digits and separators
ContactPhones ==
  UNION {[1..n -> {"5", "-"}] : n \in 0..MaxPhone}

\* phone.replace(/\D/g, '')
CleanPhone(phone) ==
  SelectSeq(phone, LAMBDA c : c \in {"0", "1", "2", "3", "4", "5", "6", "7", "8", "9"})

\* handleCall(phone, name): a Call button of the crisis panel or of a contact
\* is pressed while no toast is shown
handleCall(phone) ==
  /\ ec.pc = "idle"
  /\ ec' = [phone |-> phone, pc |-> "done",
            toast |-> IF Len(CleanPhone(phone)) >= 10
                      THEN "Calling" ELSE "Invalid phone number"]
  /\ UNCHANGED <<shellFrame, hp, cs, bt, sp>>

\* the toast disappears after its duration
ToastExpires ==
  /\ ec.pc = "done"
  /\ ec' = EcIdle
  /\ UNCHANGED <<shellFrame, hp, cs, bt, sp>>

NextCall ==
  \/ \E phone \in CRISIS_HOTLINES : handleCall(phone)
  \/ \E phone \in ContactPhones : handleCall(phone)
  \/ ToastExpires

SpecCall == InitHome /\ [][NextCall]_vars

\* ------------------------------------------------------------- claim C30
\* C30: handleCall reports 'Calling' exactly when the phone holds at least
\* 10 digits and 'Invalid phone number' otherwise, and it reports 'Calling'
\* for every phone of CRISIS_HOTLINES.
C30_HotlinesCallable ==
  ec.pc = "done" =>
    /\ ec.toast = "Calling" <=> Len(CleanPhone(ec.phone)) >= 10
    /\ ec.toast # "Calling" => ec.toast = "Invalid phone number"
    /\ ec.phone \in CRISIS_HOTLINES => ec.toast = "Calling"
====
